---- MODULE Spec2Model ----
(***************************************************************************)
(* A model of the EcoLens backend: the product normaliser and selector of  *)
(* backend/processing.py and the category aggregator of                    *)
(* backend/recommendation.py.                                              *)
(*                                                                         *)
(* Python values are tagged records: None, numbers, strings (sequences of  *)
(* one-character strings), dicts (functions from keys to values) and lists *)
(* (sequences of values).  A key that a dict does not hold is a key that   *)
(* is not in the DOMAIN of the function.  The inputs enumerated here keep  *)
(* containers well typed: a nested container is absent, None where the     *)
(* code tests it for truth, or a dict / list.                              *)
(***************************************************************************)
EXTENDS Integers, Sequences, FiniteSets, TLC

VARIABLES
    op,               \* the operation the run applies
    pc,               \* position of the run: "start", "select", "fetch", "done"
    idx,              \* the loop position of select_best_product / aggregate_and_rank_products
    product,          \* the raw product handed to a single-product operation
    result,           \* what the operation returned
    products,         \* select_best_product: the candidate list
    valid_products,   \* select_best_product: scored copies, in input order
    categories,       \* aggregate_and_rank_products: the category list
    top_n,            \* aggregate_and_rank_products: top_n
    fetched,          \* per category position: what fetch_products_by_category returned
    fetch_count,      \* per category position: how many times it was fetched
    fetch_failed,     \* positions whose upstream request failed
    all_products,     \* aggregate_and_rank_products: all_products
    unique_products,  \* aggregate_and_rank_products: unique_products.values(), insertion order
    raised            \* TRUE when an exception reached the caller

vars == <<op, pc, idx, product, result, products, valid_products, categories, top_n,
          fetched, fetch_count, fetch_failed, all_products, unique_products, raised>>

-----------------------------------------------------------------------------
(* Python values *)

None == [none |-> TRUE]

Absent == [absent |-> TRUE]

Unset == [unset |-> TRUE]

Num(n) == [num |-> n]

Str(s) == [str |-> s]

Dict(d) == [dict |-> d]

List(l) == [list |-> l]

IsNone(v) == "none" \in DOMAIN v

IsNum(v) == "num" \in DOMAIN v

IsStr(v) == "str" \in DOMAIN v

IsDict(v) == "dict" \in DOMAIN v

IsList(v) == "list" \in DOMAIN v

EmptyDict == Dict(<<>>)

EmptyStr == Str(<<>>)

\* bool(v)
Truthy(v) ==
    IF IsNone(v) THEN FALSE
    ELSE IF IsNum(v) THEN v.num # 0
    ELSE IF IsStr(v) THEN Len(v.str) > 0
    ELSE IF IsDict(v) THEN DOMAIN v.dict # {}
    ELSE IF IsList(v) THEN Len(v.list) > 0
    ELSE FALSE

\* a or b
PyOr(a, b) == IF Truthy(a) THEN a ELSE b

\* d.get(k, default)
GetD(d, k, default) == IF k \in DOMAIN d.dict THEN d.dict[k] ELSE default

\* d.get(k)
Get(d, k) == GetD(d, k, None)

HasKey(d, k) == k \in DOMAIN d.dict

\* the dict literal with the keys of f whose value is not Absent
MkDict(f) == Dict([k \in {x \in DOMAIN f : f[x] # Absent} |-> f[k]])

\* d[k] = v
SetItem(d, k, v) == Dict([x \in DOMAIN d.dict \cup {k} |-> IF x = k THEN v ELSE d.dict[x]])

\* del d[k]
DelItem(d, k) == Dict([x \in DOMAIN d.dict \ {k} |-> d.dict[x]])

-----------------------------------------------------------------------------
(* Python strings, as sequences of characters *)

LowerLetters ==
    <<"a","b","c","d","e","f","g","h","i","j","k","l","m",
      "n","o","p","q","r","s","t","u","v","w","x","y","z">>

UpperLetters ==
    <<"A","B","C","D","E","F","G","H","I","J","K","L","M",
      "N","O","P","Q","R","S","T","U","V","W","X","Y","Z">>

IsLower(c) == \E i \in 1..Len(LowerLetters) : LowerLetters[i] = c

IsUpper(c) == \E i \in 1..Len(UpperLetters) : UpperLetters[i] = c

IsCased(c) == IsLower(c) \/ IsUpper(c)

UpperChar(c) ==
    IF IsLower(c)
    THEN UpperLetters[CHOOSE i \in 1..Len(LowerLetters) : LowerLetters[i] = c]
    ELSE c

LowerChar(c) ==
    IF IsUpper(c)
    THEN LowerLetters[CHOOSE i \in 1..Len(UpperLetters) : UpperLetters[i] = c]
    ELSE c

\* s.upper()
StrUpper(s) == [i \in 1..Len(s) |-> UpperChar(s[i])]

\* s.lower()
StrLower(s) == [i \in 1..Len(s) |-> LowerChar(s[i])]

\* s.startswith(p)
StartsWith(s, p) == Len(s) >= Len(p) /\ SubSeq(s, 1, Len(p)) = p

\* s.replace(old, new), old non-empty
RECURSIVE StrReplace(_, _, _)
StrReplace(s, old, new) ==
    IF s = <<>> THEN <<>>
    ELSE IF StartsWith(s, old)
         THEN new \o StrReplace(SubSeq(s, Len(old) + 1, Len(s)), old, new)
         ELSE <<Head(s)>> \o StrReplace(Tail(s), old, new)

IsSpace(c) == c = " "

\* s.strip()
RECURSIVE StrStrip(_)
StrStrip(s) ==
    IF s = <<>> THEN <<>>
    ELSE IF IsSpace(Head(s)) THEN StrStrip(Tail(s))
    ELSE IF IsSpace(s[Len(s)]) THEN StrStrip(SubSeq(s, 1, Len(s) - 1))
    ELSE s

\* s.split(sep) for a one-character sep: the list of the pieces
RECURSIVE StrSplit(_, _)
StrSplit(s, sep) ==
    IF \A i \in 1..Len(s) : s[i] # sep THEN <<s>>
    ELSE LET i == CHOOSE j \in 1..Len(s) : s[j] = sep /\ \A k \in 1..(j - 1) : s[k] # sep
         IN  <<SubSeq(s, 1, i - 1)>> \o StrSplit(SubSeq(s, i + 1, Len(s)), sep)

\* s.title(): a cased character is upper-cased after an uncased one (or at the
\* start) and lower-cased after a cased one
StrTitle(s) ==
    [i \in 1..Len(s) |->
        IF ~IsCased(s[i]) THEN s[i]
        ELSE IF i > 1 /\ IsCased(s[i - 1]) THEN LowerChar(s[i])
        ELSE UpperChar(s[i])]

EnPrefix == <<"e", "n", ":">>

Hyphen == <<"-">>

Underscore == <<"_">>

Blank == <<" ">>

-----------------------------------------------------------------------------
(* processing.py: transform_material_scores *)

\* one iteration of the loop over packagings
MaterialScoresStep(material_scores, packaging) ==
    LET material == GetD(packaging, "material", EmptyStr)
        shape    == GetD(packaging, "shape", EmptyStr)
    IN  IF Truthy(material)
        THEN LET material_key ==
                     StrUpper(StrReplace(StrReplace(material.str, EnPrefix, <<>>),
                                         Hyphen, Underscore))
             IN  SetItem(material_scores, material_key,
                     Dict([material |-> material,
                           packaging_id |-> material,
                           environmental_score_material_score |->
                               GetD(packaging, "environmental_score_material_score", Num(0)),
                           environmental_score_shape_ratio |->
                               GetD(packaging, "environmental_score_shape_ratio", Num(0)),
                           shape |-> IF Truthy(shape) THEN shape ELSE EmptyStr,
                           shape_id |-> IF Truthy(shape)
                                        THEN Str(StrReplace(shape.str, EnPrefix, <<>>))
                                        ELSE EmptyStr]))
        ELSE material_scores

RECURSIVE MaterialScoresLoop(_, _)
MaterialScoresLoop(material_scores, packagings) ==
    IF packagings = <<>> THEN material_scores
    ELSE MaterialScoresLoop(MaterialScoresStep(material_scores, Head(packagings)),
                            Tail(packagings))

transform_material_scores(ecoscore_data) ==
    LET packaging_data ==
            GetD(GetD(ecoscore_data, "adjustments", EmptyDict), "packaging", EmptyDict)
        packagings == GetD(packaging_data, "packagings", List(<<>>))
    IN  MaterialScoresLoop(EmptyDict, packagings.list)

-----------------------------------------------------------------------------
(* processing.py: transform_environmental_data *)

Co2Keys ==
    {"co2_total", "co2_agriculture", "co2_consumption", "co2_distribution",
     "co2_packaging", "co2_processing", "co2_transportation"}

\* has_co2_data
HasCo2Data(agribalyse_data) ==
    LET co2_total == Get(agribalyse_data, "co2_total")
    IN  ~IsNone(co2_total) /\ co2_total # Num(0)

\* a mutant of IncludeAgribalyse: the warning alone decides
IncludeAgribalyse_WarningOnly(agribalyse_data) ==
    ~Truthy(Get(agribalyse_data, "warning"))

\* the test that guards the agribalyse block: has_co2_data or not warning
IncludeAgribalyse(agribalyse_data) ==
    HasCo2Data(agribalyse_data) \/ ~Truthy(Get(agribalyse_data, "warning"))

\* a mutant of Co2Values: the sub-totals upstream holds, without defaults
Co2Values_NoDefaults(agribalyse_data) ==
    Dict([k \in Co2Keys \cap DOMAIN agribalyse_data.dict |-> agribalyse_data.dict[k]])

\* co2_values
Co2Values(agribalyse_data) ==
    Dict([k \in Co2Keys |-> GetD(agribalyse_data, k, Num(0))])

EnvironmentalDefaults ==
    Dict([adjusted_score |-> Num(0), overall_grade |-> EmptyStr, packaging_score |-> Num(0)])

transform_environmental_data(p) ==
    LET ecoscore_data == GetD(p, "ecoscore_data", EmptyDict)
    IN  IF ~Truthy(ecoscore_data) THEN EnvironmentalDefaults
        ELSE
        LET base == Dict([adjusted_score |-> GetD(ecoscore_data, "score", Num(0)),
                          overall_grade |-> GetD(ecoscore_data, "grade", EmptyStr),
                          packaging_score |->
                              GetD(GetD(GetD(ecoscore_data, "adjustments", EmptyDict),
                                        "packaging", EmptyDict), "score", Num(0))])
            material_scores == transform_material_scores(ecoscore_data)
            withMaterials == IF Truthy(material_scores)
                             THEN SetItem(base, "material_scores", material_scores)
                             ELSE base
            agribalyse_data == GetD(ecoscore_data, "agribalyse", EmptyDict)
        IN  IF Truthy(agribalyse_data) /\ IncludeAgribalyse(agribalyse_data)
            THEN SetItem(withMaterials, "agribalyse", Co2Values(agribalyse_data))
            ELSE withMaterials

-----------------------------------------------------------------------------
(* processing.py: transform_labels, transform_categories_hierarchy *)

\* the label one token of the split contributes: <<label>> or <<>>
LabelOf(token) ==
    LET cleaned_label == StrStrip(token)
    IN  IF cleaned_label # <<>> /\ StartsWith(cleaned_label, EnPrefix)
        THEN <<Str(StrTitle(StrReplace(SubSeq(cleaned_label, 4, Len(cleaned_label)),
                                       Hyphen, Blank)))>>
        ELSE IF cleaned_label # <<>>
        THEN <<Str(StrTitle(StrReplace(cleaned_label, Hyphen, Blank)))>>
        ELSE <<>>

RECURSIVE LabelsLoop(_)
LabelsLoop(tokens) ==
    IF tokens = <<>> THEN <<>>
    ELSE LabelOf(Head(tokens)) \o LabelsLoop(Tail(tokens))

transform_labels(labels_str) ==
    IF ~Truthy(labels_str) \/ ~IsStr(labels_str) THEN List(<<>>)
    ELSE List(LabelsLoop(StrSplit(labels_str.str, ",")))

RECURSIVE CategoriesLoop(_)
CategoriesLoop(cats) ==
    IF cats = <<>> THEN <<>>
    ELSE LET category == Head(cats)
         IN  (IF IsStr(category) /\ StartsWith(category.str, EnPrefix)
              THEN <<Str(StrTitle(StrReplace(SubSeq(category.str, 4, Len(category.str)),
                                             Hyphen, Blank)))>>
              ELSE <<>>) \o CategoriesLoop(Tail(cats))

transform_categories_hierarchy(categories_hierarchy) ==
    IF ~Truthy(categories_hierarchy) THEN List(<<>>)
    ELSE List(CategoriesLoop(categories_hierarchy.list))

-----------------------------------------------------------------------------
(* processing.py: transform_single_product *)

\* a mutant of ProductId: _id preferred to code
ProductId_IdFirst(p) == PyOr(Get(p, "_id"), Get(p, "code"))

\* product_id
ProductId(p) == PyOr(Get(p, "code"), Get(p, "_id"))

\* product_name
ProductName(p) == PyOr(Get(p, "product_name"), GetD(p, "product_name_en", EmptyStr))

transform_single_product(p) ==
    LET product_id   == ProductId(p)
        product_name == ProductName(p)
    IN  IF ~Truthy(product_id) \/ ~Truthy(product_name) THEN None
        ELSE Dict([id |-> product_id,
                   name |-> product_name,
                   environmental_score_data |-> transform_environmental_data(p),
                   categories |->
                       transform_categories_hierarchy(GetD(p, "categories_hierarchy", List(<<>>))),
                   labels |-> transform_labels(GetD(p, "labels", EmptyStr))])

-----------------------------------------------------------------------------
(* processing.py: calculate_product_quality_score, select_best_product.     *)
(* The quality score is a float with one decimal at most (ecoscore * 0.6    *)
(* over integer eco-scores); the model keeps it exact, in tenths.           *)

Min(a, b) == IF a <= b THEN a ELSE b

Max(a, b) == IF a >= b THEN a ELSE b

\* the term of the score for the product's name: 10.0 if product.get("product_name")
NameTerm(p) == IF Truthy(Get(p, "product_name")) THEN 100 ELSE 0

\* the term for the identifier: -20.0 if neither code nor _id
IdTerm(p) == IF ~Truthy(Get(p, "code")) /\ ~Truthy(Get(p, "_id")) THEN -200 ELSE 0

\* the term for the categories: min(len(categories) * 2.0, 10.0)
CategoriesTerm(p) ==
    LET cats == GetD(p, "categories_hierarchy", List(<<>>))
    IN  IF Truthy(cats) THEN Min(Len(cats.list) * 20, 100) ELSE 0

\* the score before the floor at 0.0, in tenths
RawQualityScore(p) ==
    LET ecoscore_data == GetD(p, "ecoscore_data", EmptyDict)
        ecoscore      == GetD(ecoscore_data, "score", Num(0))
        agribalyse    == GetD(ecoscore_data, "agribalyse", EmptyDict)
        packaging     == GetD(GetD(ecoscore_data, "adjustments", EmptyDict),
                              "packaging", EmptyDict)
    IN    (IF Truthy(ecoscore) THEN ecoscore.num * 6 ELSE 0)
        + NameTerm(p)
        + CategoriesTerm(p)
        + (IF Truthy(agribalyse) /\ ~IsNone(Get(agribalyse, "co2_total")) THEN 50 ELSE 0)
        + (IF Truthy(Get(packaging, "packagings")) THEN 50 ELSE 0)
        + IdTerm(p)

calculate_product_quality_score(p) == Max(RawQualityScore(p), 0)

\* a mutant of ProductWithScore: no copy, the score is stored into the
\* candidate itself
ProductWithScore_InPlace(p, quality_score) ==
    LET scored == SetItem(p, "_quality_score", Num(quality_score))
    IN  [product_with_score |-> scored, product |-> scored]

\* product_with_score = product.copy(); product_with_score["_quality_score"] = ...
\* the copy is a dict of its own, so the candidate keeps its items
ProductWithScore(p, quality_score) ==
    [product_with_score |-> SetItem(p, "_quality_score", Num(quality_score)),
     product |-> p]

\* the body of the loop over products: valid_products after the candidate p
SelectLoopBody(valid, p) ==
    IF ~Truthy(Get(p, "ecoscore_data")) THEN valid
    ELSE LET quality_score == calculate_product_quality_score(p)
         IN  IF quality_score > 0
             THEN Append(valid, ProductWithScore(p, quality_score).product_with_score)
             ELSE valid

\* the body of the loop over products: the candidate p as the iteration leaves it
ProductAfterLoopBody(p) ==
    IF ~Truthy(Get(p, "ecoscore_data")) THEN p
    ELSE LET quality_score == calculate_product_quality_score(p)
         IN  IF quality_score > 0
             THEN ProductWithScore(p, quality_score).product
             ELSE p

\* a mutant of MaxByQuality: the last element whose key is maximal
MaxByQuality_Last(valid) ==
    CHOOSE i \in 1..Len(valid) :
        /\ \A j \in 1..Len(valid) :
              valid[j].dict["_quality_score"].num <= valid[i].dict["_quality_score"].num
        /\ \A j \in (i + 1)..Len(valid) :
              valid[j].dict["_quality_score"].num < valid[i].dict["_quality_score"].num

\* max(valid, key=...): the position of the first element whose key is maximal
MaxByQuality(valid) ==
    CHOOSE i \in 1..Len(valid) :
        /\ \A j \in 1..Len(valid) :
              valid[j].dict["_quality_score"].num <= valid[i].dict["_quality_score"].num
        /\ \A j \in 1..(i - 1) :
              valid[j].dict["_quality_score"].num < valid[i].dict["_quality_score"].num

\* what select_best_product returns once the loop is over
SelectResult(valid) ==
    IF valid = <<>> THEN None
    ELSE DelItem(valid[MaxByQuality(valid)], "_quality_score")

-----------------------------------------------------------------------------
(* recommendation.py: fetch_products_by_category *)

\* formatted_category
FormattedCategory(category) ==
    StrReplace(StrReplace(StrLower(category), Blank, Hyphen), Underscore, Hyphen)

\* category_mappings
CategoryMappings ==
    { <<<<"i","c","e","-","c","r","e","a","m","s","-","a","n","d","-","s","o","r","b","e","t","s">>,
        <<"i","c","e","-","c","r","e","a","m","s">>>>,
      <<<<"i","c","e","-","c","r","e","a","m","-","t","u","b","s">>,
        <<"i","c","e","-","c","r","e","a","m","s">>>>,
      <<<<"f","r","o","z","e","n","-","f","o","o","d","s">>,
        <<"f","r","o","z","e","n","-","p","r","o","d","u","c","t","s">>>>,
      <<<<"f","r","o","z","e","n","-","d","e","s","s","e","r","t","s">>,
        <<"f","r","o","z","e","n","-","d","e","s","s","e","r","t","s">>>> }

\* final_category
FinalCategory(category) ==
    LET formatted_category == FormattedCategory(category)
    IN  IF \E m \in CategoryMappings : m[1] = formatted_category
        THEN (CHOOSE m \in CategoryMappings : m[1] = formatted_category)[2]
        ELSE formatted_category

Digits == <<"0", "1", "2", "3", "4", "5", "6", "7", "8", "9">>

IsDigit(c) == \E i \in 1..Len(Digits) : Digits[i] = c

DigitValue(c) == (CHOOSE i \in 1..Len(Digits) : Digits[i] = c) - 1

RECURSIVE DigitsValue(_)
DigitsValue(s) ==
    IF s = <<>> THEN 0
    ELSE 10 * DigitsValue(SubSeq(s, 1, Len(s) - 1)) + DigitValue(s[Len(s)])

\* float(s) of a string: surrounding blanks are dropped, then an optional sign
\* and decimal digits are read; [ok |-> FALSE] stands for ValueError.  (The
\* strings of the inputs hold no fraction, exponent, inf or nan.)
ParseFloat(s) ==
    LET body     == StrStrip(s)
        negative == body # <<>> /\ Head(body) = "-"
        digits   == IF negative THEN Tail(body) ELSE body
    IN  IF digits # <<>> /\ \A i \in 1..Len(digits) : IsDigit(digits[i])
        THEN [ok |-> TRUE, val |-> IF negative THEN 0 - DigitsValue(digits)
                                   ELSE DigitsValue(digits)]
        ELSE [ok |-> FALSE]

\* grade_scores.get(grade, 50)
GradeScore(grade) ==
    IF grade = <<"a">> THEN 80
    ELSE IF grade = <<"b">> THEN 65
    ELSE IF grade = <<"c">> THEN 50
    ELSE IF grade = <<"d">> THEN 35
    ELSE IF grade = <<"e">> THEN 20
    ELSE 50

\* ecoscore
UpstreamEcoscore(p) ==
    PyOr(Get(p, "ecoscore_score"), Get(GetD(p, "ecoscore_data", EmptyDict), "score"))

\* name
UpstreamName(p) ==
    PyOr(PyOr(PyOr(Get(p, "product_name"), Get(p, "product_name_en")),
              Get(p, "generic_name")),
         Get(p, "generic_name_en"))

\* ecoscore_grade
UpstreamGrade(p) ==
    PyOr(Get(p, "ecoscore_grade"), Get(GetD(p, "ecoscore_data", EmptyDict), "grade"))

\* default_score
DefaultScore(ecoscore_grade) ==
    IF Truthy(ecoscore_grade) THEN GradeScore(StrLower(ecoscore_grade.str)) ELSE 50

\* ecoscore_float, and default_score where float() raises ValueError or TypeError
EcoscoreFloat(ecoscore, default_score) ==
    IF IsNone(ecoscore) THEN default_score
    ELSE IF IsNum(ecoscore) THEN ecoscore.num
    ELSE IF IsStr(ecoscore) /\ ParseFloat(ecoscore.str).ok THEN ParseFloat(ecoscore.str).val
    ELSE default_score

\* f"rec_{n}"
RecId(n) == Str(<<"r", "e", "c", "_">> \o (IF n < 10 THEN <<Digits[n + 1]>>
                                          ELSE <<Digits[(n \div 10) + 1], Digits[(n % 10) + 1]>>))

\* one iteration of the loop over the upstream products
FetchLoopBody(valid, p) ==
    LET ecoscore       == UpstreamEcoscore(p)
        name           == UpstreamName(p)
        ecoscore_grade == UpstreamGrade(p)
    IN  IF Truthy(name)
        THEN Append(valid,
                 Dict([id |-> GetD(p, "_id", RecId(Len(valid))),
                       product_name |-> name,
                       ecoscore_score |-> Num(EcoscoreFloat(ecoscore, DefaultScore(ecoscore_grade))),
                       ecoscore_grade |-> IF Truthy(ecoscore_grade) THEN ecoscore_grade
                                          ELSE Str(<<"c">>)]))
        ELSE valid

RECURSIVE FetchLoop(_, _)
FetchLoop(valid, upstream) ==
    IF upstream = <<>> THEN valid
    ELSE FetchLoop(FetchLoopBody(valid, Head(upstream)), Tail(upstream))

\* what the upstream request gives: the products of the response, or a
\* requests.RequestException
RequestFailure == [exception |-> "RequestException"]

Returns(v) == [returns |-> v]

Raises(e) == [raises |-> e]

\* a mutant of fetch_products_by_category: the failure of the request escapes
fetch_products_by_category_Escapes(category, response) ==
    IF response = RequestFailure THEN Raises("RequestException")
    ELSE Returns(FetchLoop(<<>>, response.list))

\* fetch_products_by_category, given what the request for the category's tag gives
fetch_products_by_category(category, response) ==
    IF response = RequestFailure THEN Returns(<<>>)
    ELSE Returns(FetchLoop(<<>>, response.list))

-----------------------------------------------------------------------------
(* recommendation.py: aggregate_and_rank_products *)

NameOf(c) == c.dict["product_name"]

ScoreOf(c) == c.dict["ecoscore_score"].num

\* a mutant of DedupStep: the first candidate of a name is kept
DedupStep_KeepFirst(unique, c) ==
    IF \E i \in 1..Len(unique) : NameOf(unique[i]) = NameOf(c)
    THEN unique
    ELSE Append(unique, c)

\* a mutant of DedupStep: the last candidate of a name is kept
DedupStep_KeepLast(unique, c) ==
    IF \E i \in 1..Len(unique) : NameOf(unique[i]) = NameOf(c)
    THEN LET i == CHOOSE j \in 1..Len(unique) : NameOf(unique[j]) = NameOf(c)
         IN  [unique EXCEPT ![i] = c]
    ELSE Append(unique, c)

\* one iteration of the loop over all_products; unique is unique_products.values()
DedupStep(unique, c) ==
    IF \E i \in 1..Len(unique) : NameOf(unique[i]) = NameOf(c)
    THEN LET i == CHOOSE j \in 1..Len(unique) : NameOf(unique[j]) = NameOf(c)
         IN  IF ScoreOf(c) > ScoreOf(unique[i])
             THEN [unique EXCEPT ![i] = c]
             ELSE unique
    ELSE Append(unique, c)

RECURSIVE DedupLoop(_, _)
DedupLoop(unique, all) ==
    IF all = <<>> THEN unique
    ELSE DedupLoop(DedupStep(unique, Head(all)), Tail(all))

\* c put into a sequence sorted by score, highest first, after its equals
InsertByScore(sorted, c) ==
    LET k == Cardinality({i \in 1..Len(sorted) : ScoreOf(sorted[i]) >= ScoreOf(c)})
    IN  SubSeq(sorted, 1, k) \o <<c>> \o SubSeq(sorted, k + 1, Len(sorted))

\* a mutant of SortedByScore: lowest score first
RECURSIVE SortedByScore_Ascending(_)
SortedByScore_Ascending(seq) ==
    IF seq = <<>> THEN <<>>
    ELSE LET rest == SortedByScore_Ascending(SubSeq(seq, 1, Len(seq) - 1))
             c    == seq[Len(seq)]
             k    == Cardinality({i \in 1..Len(rest) : ScoreOf(rest[i]) <= ScoreOf(c)})
         IN  SubSeq(rest, 1, k) \o <<c>> \o SubSeq(rest, k + 1, Len(rest))

\* sorted(..., key=score, reverse=True): stable, highest score first
RECURSIVE SortedByScore(_)
SortedByScore(seq) ==
    IF seq = <<>> THEN <<>>
    ELSE InsertByScore(SortedByScore(SubSeq(seq, 1, Len(seq) - 1)), seq[Len(seq)])

\* seq[:n], n >= 0
Take(seq, n) == SubSeq(seq, 1, Min(n, Len(seq)))

\* ranked_products, from all_products
RankedProducts(all, n) ==
    IF all = <<>> THEN <<>>
    ELSE Take(SortedByScore(DedupLoop(<<>>, all)), n)

-----------------------------------------------------------------------------
(* Inputs *)

MaxPackagings == 2

MaxHierarchy == 6

MaxProducts == 3

\* the sequences over S of length at most n
SeqsUpTo(S, n) == UNION {[1..k -> S] : k \in 0..n}

PackA ==
    Dict([material |-> Str(<<"e","n",":","p","-","a">>),
          shape |-> Str(<<"e","n",":","b">>),
          environmental_score_material_score |-> Num(8),
          environmental_score_shape_ratio |-> Num(2)])

PackB ==
    Dict([material |-> Str(<<"p","_","a">>),
          environmental_score_material_score |-> Num(3)])

PackC == Dict([shape |-> Str(<<"e","n",":","b">>)])

PackLists == SeqsUpTo({PackA, PackB, PackC}, MaxPackagings)

AdjustmentsVariants ==
    {Absent, EmptyDict, Dict([packaging |-> EmptyDict])}
    \cup {Dict([packaging |-> Dict([score |-> Num(-5), packagings |-> List(l)])]) :
             l \in PackLists}

AgribalyseVariants ==
    {Absent, None, EmptyDict}
    \cup {MkDict([co2_total |-> t, warning |-> w, co2_agriculture |-> a,
                  co2_consumption |-> r, co2_distribution |-> r, co2_packaging |-> r,
                  co2_processing |-> r, co2_transportation |-> r]) :
             t \in {Absent, None, Num(0), Num(12)},
             w \in {Absent, EmptyStr, Str(<<"w">>)},
             a \in {Absent, None, Num(3)},
             r \in {Absent, Num(1)}}

EcoscoreVariants ==
    {Absent, None, EmptyDict}
    \cup {MkDict([score |-> sg[1], grade |-> sg[2], adjustments |-> adj, agribalyse |-> ag]) :
             sg \in {<<Absent, Absent>>, <<Num(42), Str(<<"b">>)>>},
             adj \in AdjustmentsVariants,
             ag \in AgribalyseVariants}

\* the products transform_environmental_data is applied to
EnvProducts ==
    {MkDict([code |-> Str(<<"1">>), product_name |-> Str(<<"X">>), ecoscore_data |-> e]) :
        e \in EcoscoreVariants}

HierarchyEntries ==
    <<Str(<<"e","n",":","a","-","b">>), Str(<<"f","r",":","c">>), Str(<<"e","n",":","D","e">>)>>

\* the hierarchy of n entries
Hierarchy(n) == List([i \in 1..n |-> HierarchyEntries[((i - 1) % 3) + 1]])

\* the eco-score substructures of the products that are normalised and scored
ScoredEcoscores ==
    { Absent,
      EmptyDict,
      Dict([score |-> Num(50)]),
      Dict([score |-> Num(0), grade |-> Str(<<"e">>)]),
      Dict([score |-> Num(-40), grade |-> Str(<<"e">>)]),
      Dict([score |-> Num(50), agribalyse |-> Dict([co2_total |-> Num(0)])]),
      Dict([score |-> Num(50),
            agribalyse |-> Dict([co2_total |-> None, warning |-> Str(<<"w">>)])]),
      Dict([agribalyse |-> Dict([co2_total |-> Num(12)]),
            adjustments |-> Dict([packaging |-> Dict([packagings |-> List(<<PackA>>)])])]),
      Dict([grade |-> Str(<<"b">>),
            adjustments |-> Dict([packaging |-> Dict([packagings |-> List(<<>>)])])]) }

\* the raw records transform_single_product and calculate_product_quality_score
\* are applied to
RawProducts ==
    {MkDict([code |-> c, _id |-> i, product_name |-> n, product_name_en |-> e,
             categories_hierarchy |-> h, labels |-> l, ecoscore_data |-> s]) :
        c \in {Absent, EmptyStr, Str(<<"1">>)},
        i \in {Absent, None, Str(<<"2">>)},
        n \in {Absent, EmptyStr, Str(<<"X">>)},
        e \in {Absent, EmptyStr, Str(<<"Y">>)},
        h \in {Absent} \cup {Hierarchy(k) : k \in 0..MaxHierarchy},
        l \in {Absent, Str(<<"e","n",":","a","-","b",","," ","c","D",",">>)},
        s \in ScoredEcoscores}

\* the candidates select_best_product chooses among
Candidates ==
    { Dict([code |-> Str(<<"1">>), product_name |-> Str(<<"X">>),
            ecoscore_data |-> Dict([score |-> Num(50)])]),
      Dict([code |-> Str(<<"2">>), product_name |-> Str(<<"Y">>),
            ecoscore_data |-> Dict([score |-> Num(50)])]),
      Dict([_id |-> Str(<<"3">>), product_name_en |-> Str(<<"Z">>),
            categories_hierarchy |-> Hierarchy(5),
            ecoscore_data |-> Dict([score |-> Num(50)])]),
      Dict([code |-> Str(<<"4">>), product_name |-> Str(<<"N">>)]),
      Dict([code |-> Str(<<"5">>), product_name |-> Str(<<"E">>), ecoscore_data |-> EmptyDict]),
      Dict([product_name |-> Str(<<"W">>),
            ecoscore_data |-> Dict([score |-> Num(10), grade |-> Str(<<"e">>)])]),
      Dict([code |-> Str(<<"6">>), ecoscore_data |-> Dict([score |-> Num(-40)])]),
      Dict([code |-> Str(<<"7">>), product_name |-> Str(<<"V">>),
            ecoscore_data |-> Dict([score |-> Num(80), grade |-> Str(<<"a">>)])]) }

IdleProduct == product = Unset

IdleSelect == products = <<>> /\ valid_products = <<>>

IdleAggregate ==
    /\ categories = <<>>
    /\ top_n = 0
    /\ fetched = <<>>
    /\ fetch_count = <<>>
    /\ fetch_failed = {}
    /\ all_products = <<>>
    /\ unique_products = <<>>

selectVars == <<products, valid_products>>

aggregateVars ==
    <<categories, top_n, fetched, fetch_count, fetch_failed, all_products, unique_products>>

-----------------------------------------------------------------------------
(* Single-product operations *)

\* the operation returns r
Return(name, r) ==
    /\ op' = name
    /\ pc' = "done"
    /\ result' = r
    /\ UNCHANGED <<idx, product, raised, selectVars, aggregateVars>>

TransformEnvironmentalData ==
    /\ pc = "start"
    /\ Return("transform_environmental_data", transform_environmental_data(product))

TransformSingleProduct ==
    /\ pc = "start"
    /\ Return("transform_single_product", transform_single_product(product))

CalculateProductQualityScore ==
    /\ pc = "start"
    /\ Return("calculate_product_quality_score", Num(calculate_product_quality_score(product)))

InitCommon ==
    /\ op = "none"
    /\ pc = "start"
    /\ idx = 0
    /\ result = Unset
    /\ raised = FALSE

InitEnv ==
    /\ InitCommon
    /\ product \in EnvProducts
    /\ IdleSelect
    /\ IdleAggregate

NextEnv == TransformEnvironmentalData

SpecEnv == InitEnv /\ [][NextEnv]_vars

InitProduct ==
    /\ InitCommon
    /\ product \in RawProducts
    /\ IdleSelect
    /\ IdleAggregate

NextProduct ==
    \/ TransformSingleProduct
    \/ CalculateProductQualityScore

SpecProduct == InitProduct /\ [][NextProduct]_vars

-----------------------------------------------------------------------------
(* select_best_product, one action per loop iteration *)

SelectBegin ==
    /\ pc = "start"
    /\ op' = "select_best_product"
    /\ IF ~(Len(products) > 0)
       THEN pc' = "done" /\ result' = None
       ELSE pc' = "select" /\ result' = result
    /\ idx' = 1
    /\ valid_products' = <<>>
    /\ UNCHANGED <<product, products, raised, aggregateVars>>

SelectLoop ==
    /\ pc = "select"
    /\ idx <= Len(products)
    /\ valid_products' = SelectLoopBody(valid_products, products[idx])
    /\ products' = [products EXCEPT ![idx] = ProductAfterLoopBody(products[idx])]
    /\ idx' = idx + 1
    /\ UNCHANGED <<op, pc, product, result, raised, aggregateVars>>

SelectFinish ==
    /\ pc = "select"
    /\ idx > Len(products)
    /\ result' = SelectResult(valid_products)
    /\ pc' = "done"
    /\ UNCHANGED <<op, idx, product, products, valid_products, raised, aggregateVars>>

InitSelect ==
    /\ InitCommon
    /\ IdleProduct
    /\ products \in SeqsUpTo(Candidates, MaxProducts)
    /\ valid_products = <<>>
    /\ IdleAggregate

NextSelect ==
    \/ SelectBegin
    \/ SelectLoop
    \/ SelectFinish

SpecSelect == InitSelect /\ [][NextSelect]_vars

\* candidates that already carry a _quality_score field of their own
ScoredCandidates ==
    { Dict([code |-> Str(<<"8">>), product_name |-> Str(<<"X">>),
            ecoscore_data |-> Dict([score |-> Num(50)]),
            _quality_score |-> Num(7)]),
      Dict([code |-> Str(<<"9">>), _quality_score |-> Num(9000)]) }

\* select_best_product over lists that may hold such candidates
InitSelectScored ==
    /\ InitCommon
    /\ IdleProduct
    /\ products \in SeqsUpTo(Candidates \cup ScoredCandidates, MaxProducts)
    /\ valid_products = <<>>
    /\ IdleAggregate

SpecSelectScored == InitSelectScored /\ [][NextSelect]_vars

-----------------------------------------------------------------------------
(* The upstream source: what a search for a category tag returns *)

MaxCategories == 2

MaxTopN == 3

MaxResponse == 2

TagIceCreams == <<"i","c","e","-","c","r","e","a","m","s">>

TagFrozenProducts == <<"f","r","o","z","e","n","-","p","r","o","d","u","c","t","s">>

TagTea == <<"t","e","a">>

\* the category strings a request may name
CategoryInputs ==
    { <<"i","c","e","-","c","r","e","a","m","-","t","u","b","s">>,
      <<"I","c","e"," ","C","r","e","a","m","s">>,
      <<"f","r","o","z","e","n","_","f","o","o","d","s">>,
      <<"t","e","a">>,
      <<"s","o","y">> }

\* the products the source holds under a tag
UpstreamProducts(tag) ==
    IF tag = TagIceCreams THEN
        << Dict([_id |-> Str(<<"1">>), product_name |-> Str(<<"X">>),
                 ecoscore_score |-> Num(40), ecoscore_grade |-> Str(<<"c">>)]),
           Dict([product_name |-> Str(<<"Y">>),
                 ecoscore_score |-> Num(90), ecoscore_grade |-> Str(<<"a">>)]) >>
    ELSE IF tag = TagFrozenProducts THEN
        << Dict([_id |-> Str(<<"2">>), product_name |-> Str(<<"X">>),
                 ecoscore_score |-> Num(55), ecoscore_grade |-> Str(<<"b">>)]),
           Dict([product_name |-> Str(<<"Z">>),
                 ecoscore_score |-> Num(90), ecoscore_grade |-> Str(<<"a">>)]),
           Dict([product_name |-> EmptyStr, generic_name |-> Str(<<"W">>),
                 ecoscore_score |-> Str(<<"1","0">>)]) >>
    ELSE IF tag = TagTea THEN
        << Dict([product_name_en |-> Str(<<"T">>), ecoscore_grade |-> Str(<<"B">>)]),
           Dict([ecoscore_score |-> Num(99)]),
           Dict([product_name |-> Str(<<"X">>),
                 ecoscore_score |-> Num(55), ecoscore_grade |-> Str(<<"a">>)]),
           Dict([product_name |-> Str(<<"V">>),
                 ecoscore_data |-> Dict([score |-> Num(35), grade |-> Str(<<"d">>)])]) >>
    ELSE <<>>

\* the response to the request fetch_products_by_category makes for a category
UpstreamResponse(category) == List(UpstreamProducts(FinalCategory(category)))

\* the upstream products fetch_products_by_category is applied to
UpstreamCandidates ==
    {MkDict([product_name |-> n[1], generic_name |-> n[2],
             ecoscore_score |-> sc[1], ecoscore_data |-> sc[2], ecoscore_grade |-> g]) :
        n \in {<<Str(<<"N">>), Absent>>, <<EmptyStr, Str(<<"G">>)>>, <<Absent, Absent>>},
        sc \in {<<Absent, Absent>>, <<None, Absent>>, <<Num(0), Absent>>, <<Num(73), Absent>>,
                <<Str(<<"1","2">>), Absent>>, <<Str(<<"a","b">>), Absent>>,
                <<Absent, Dict([score |-> Num(31)])>>},
        g \in {Absent, Str(<<"a">>), Str(<<"D">>), Str(<<"e">>)}}

-----------------------------------------------------------------------------
(* fetch_products_by_category applied to one response *)

FetchReturns ==
    /\ pc = "start"
    /\ LET r == fetch_products_by_category(categories[1], List(products))
       IN  Return("fetch_products_by_category", List(r.returns))

FetchRequestFails ==
    /\ pc = "start"
    /\ fetch_failed' = {1}
    /\ LET r == fetch_products_by_category(categories[1], RequestFailure)
       IN  /\ op' = "fetch_products_by_category"
           /\ pc' = "done"
           /\ result' = List(r.returns)
    /\ UNCHANGED <<idx, product, raised, selectVars, categories, top_n, fetched,
                   fetch_count, all_products, unique_products>>

InitFetch ==
    /\ InitCommon
    /\ IdleProduct
    /\ products \in SeqsUpTo(UpstreamCandidates, MaxResponse)
    /\ valid_products = <<>>
    /\ categories \in {<<c>> : c \in CategoryInputs}
    /\ top_n = 0
    /\ fetched = <<>>
    /\ fetch_count = <<>>
    /\ fetch_failed = {}
    /\ all_products = <<>>
    /\ unique_products = <<>>

NextFetch ==
    \/ FetchReturns
    \/ FetchRequestFails

SpecFetch == InitFetch /\ [][NextFetch]_vars

-----------------------------------------------------------------------------
(* aggregate_and_rank_products, one action per fetched category *)

\* the loop over categories, for the category at idx, given the response
FetchCategory(response) ==
    LET r == fetch_products_by_category(categories[idx], response)
    IN  /\ fetch_count' = [fetch_count EXCEPT ![idx] = @ + 1]
        /\ IF "raises" \in DOMAIN r
           THEN /\ raised' = TRUE
                /\ pc' = "done"
                /\ UNCHANGED <<idx, fetched, all_products>>
           ELSE /\ fetched' = Append(fetched, r.returns)
                /\ all_products' = all_products \o r.returns
                /\ idx' = idx + 1
                /\ UNCHANGED <<pc, raised>>
        /\ UNCHANGED <<op, product, result, selectVars, categories, top_n, unique_products>>

AggregateFetch ==
    /\ pc = "fetch"
    /\ idx <= Len(categories)
    /\ UNCHANGED fetch_failed
    /\ FetchCategory(UpstreamResponse(categories[idx]))

AggregateFetchFails ==
    /\ pc = "fetch"
    /\ idx <= Len(categories)
    /\ fetch_failed' = fetch_failed \cup {idx}
    /\ FetchCategory(RequestFailure)

AggregateRank ==
    /\ pc = "fetch"
    /\ idx > Len(categories)
    /\ unique_products' = IF all_products = <<>> THEN <<>> ELSE DedupLoop(<<>>, all_products)
    /\ result' = List(RankedProducts(all_products, top_n))
    /\ pc' = "done"
    /\ UNCHANGED <<op, idx, product, raised, selectVars, categories, top_n, fetched,
                   fetch_count, fetch_failed, all_products>>

InitAggregate ==
    /\ op = "aggregate_and_rank_products"
    /\ pc = "fetch"
    /\ idx = 1
    /\ result = Unset
    /\ raised = FALSE
    /\ IdleProduct
    /\ IdleSelect
    /\ categories \in SeqsUpTo(CategoryInputs, MaxCategories)
    /\ top_n \in 0..MaxTopN
    /\ fetched = <<>>
    /\ fetch_count = [i \in 1..Len(categories) |-> 0]
    /\ fetch_failed = {}
    /\ all_products = <<>>
    /\ unique_products = <<>>

NextAggregate ==
    \/ AggregateFetch
    \/ AggregateFetchFails
    \/ AggregateRank

SpecAggregate == InitAggregate /\ [][NextAggregate]_vars

-----------------------------------------------------------------------------
(* Properties of transform_environmental_data *)

Done(name) == pc = "done" /\ op = name

\* v is a dict that holds at least one key
NonEmptyDict(v) == IsDict(v) /\ DOMAIN v.dict # {}

\* the product has an eco-score substructure
HasEcoscore(p) == HasKey(p, "ecoscore_data") /\ NonEmptyDict(p.dict["ecoscore_data"])

\* the eco-score substructure carries agribalyse data
CarriesAgribalyse(p) ==
    /\ HasEcoscore(p)
    /\ HasKey(p.dict["ecoscore_data"], "agribalyse")
    /\ NonEmptyDict(p.dict["ecoscore_data"].dict["agribalyse"])

AgribalyseOf(p) == p.dict["ecoscore_data"].dict["agribalyse"]

\* co2_total is present and non-zero
Co2TotalNonZero(ag) ==
    HasKey(ag, "co2_total") /\ IsNum(ag.dict["co2_total"]) /\ ag.dict["co2_total"].num # 0

\* a data-quality warning flag is set
WarningSet(ag) ==
    HasKey(ag, "warning") /\ IsStr(ag.dict["warning"]) /\ ag.dict["warning"].str # <<>>

\* C1: for a product whose eco-score substructure carries agribalyse data, the
\* output of transform_environmental_data holds the lifecycle CO2 block if and
\* only if co2_total is present and non-zero, or no warning flag is set.
C1_LifecycleInclusion ==
    (Done("transform_environmental_data") /\ CarriesAgribalyse(product)) =>
        (HasKey(result, "agribalyse")
            <=> (Co2TotalNonZero(AgribalyseOf(product)) \/ ~WarningSet(AgribalyseOf(product))))

\* a zero total with a warning: the block is suppressed
C1_Witness ==
    /\ Done("transform_environmental_data")
    /\ CarriesAgribalyse(product)
    /\ Get(AgribalyseOf(product), "co2_total") = Num(0)
    /\ WarningSet(AgribalyseOf(product))
    /\ ~HasKey(result, "agribalyse")

\* no warning flag is set anywhere in the eco-score substructure
Unwarned(p) == CarriesAgribalyse(p) => ~WarningSet(AgribalyseOf(p))

\* the agribalyse data is missing: the block is absent or empty, or its
\* co2_total is absent or null
AgribalyseMissing(p) ==
    \/ ~CarriesAgribalyse(p)
    \/ IsNone(Get(AgribalyseOf(p), "co2_total"))

\* the output holds the block, each sub-total a number, 0 where upstream has no value
ZeroDefaultBlock(p, r) ==
    /\ HasKey(r, "agribalyse")
    /\ \A k \in Co2Keys :
          /\ IsNum(r.dict["agribalyse"].dict[k])
          /\ (~CarriesAgribalyse(p) \/ IsNone(Get(AgribalyseOf(p), k)))
                => r.dict["agribalyse"].dict[k] = Num(0)

\* C2, as claimed: for a product with an eco-score substructure, no warning
\* flag and missing agribalyse data (block absent or empty, or co2_total absent
\* or null), the output holds the lifecycle CO2 block with seven numeric
\* sub-totals that are 0 wherever upstream supplies no value.
C2_AsClaimed ==
    (Done("transform_environmental_data") /\ HasEcoscore(product)
        /\ Unwarned(product) /\ AgribalyseMissing(product))
    => ZeroDefaultBlock(product, result)

\* C2, amended: with a non-empty agribalyse block, no warning flag and
\* co2_total absent or null, the output holds the lifecycle CO2 block, and each
\* of the seven sub-totals is 0 where the block has no such key and is the
\* block's own value (a null included) where it has; with the agribalyse block
\* absent or empty the output holds no lifecycle CO2 block.
C2_MissingTotalUnwarned ==
    (Done("transform_environmental_data") /\ HasEcoscore(product)) =>
        /\ (CarriesAgribalyse(product) /\ ~WarningSet(AgribalyseOf(product))
                /\ IsNone(Get(AgribalyseOf(product), "co2_total")))
           => /\ HasKey(result, "agribalyse")
              /\ DOMAIN result.dict["agribalyse"].dict = Co2Keys
              /\ \A k \in Co2Keys :
                    result.dict["agribalyse"].dict[k] =
                        IF HasKey(AgribalyseOf(product), k)
                        THEN AgribalyseOf(product).dict[k]
                        ELSE Num(0)
        /\ ~CarriesAgribalyse(product) => ~HasKey(result, "agribalyse")

\* a non-empty block without co2_total and without a warning: zero defaults
C2_Witness ==
    /\ Done("transform_environmental_data")
    /\ CarriesAgribalyse(product)
    /\ ~HasKey(AgribalyseOf(product), "co2_total")
    /\ ~WarningSet(AgribalyseOf(product))
    /\ HasKey(result, "agribalyse")
    /\ result.dict["agribalyse"].dict["co2_total"] = Num(0)

-----------------------------------------------------------------------------
(* Properties of transform_single_product *)

\* the field k of p is a non-empty string
NonEmptyField(p, k) == HasKey(p, k) /\ IsStr(p.dict[k]) /\ p.dict[k].str # <<>>

IdResolvable(p) == NonEmptyField(p, "code") \/ NonEmptyField(p, "_id")

NameResolvable(p) == NonEmptyField(p, "product_name") \/ NonEmptyField(p, "product_name_en")

NormalizedKeys == {"id", "name", "environmental_score_data", "categories", "labels"}

\* C3: transform_single_product returns a record if and only if an id and a
\* name are resolvable, and None otherwise; a record holds all five fields,
\* its id is code if non-empty and _id otherwise, its name is product_name if
\* non-empty and product_name_en otherwise.
C3_NormalizeOrNoResult ==
    Done("transform_single_product") =>
        IF IdResolvable(product) /\ NameResolvable(product)
        THEN /\ IsDict(result)
             /\ DOMAIN result.dict = NormalizedKeys
             /\ result.dict["id"] = IF NonEmptyField(product, "code")
                                     THEN product.dict["code"]
                                     ELSE product.dict["_id"]
             /\ result.dict["name"] = IF NonEmptyField(product, "product_name")
                                       THEN product.dict["product_name"]
                                       ELSE product.dict["product_name_en"]
        ELSE result = None

\* both fallbacks taken: an empty code and no product_name
C3_Witness ==
    /\ Done("transform_single_product")
    /\ ~NonEmptyField(product, "code")
    /\ ~NonEmptyField(product, "product_name")
    /\ IsDict(result)
    /\ result.dict["id"] = product.dict["_id"]
    /\ result.dict["name"] = product.dict["product_name_en"]

-----------------------------------------------------------------------------
(* Properties of select_best_product and calculate_product_quality_score *)

\* the candidate at position i has an eco-score substructure and a score above 0
Eligible(i) ==
    HasEcoscore(products[i]) /\ calculate_product_quality_score(products[i]) > 0

EligiblePositions == {i \in 1..Len(products) : Eligible(i)}

\* the earliest position among the eligible ones whose score is maximal
StableMaxPosition ==
    CHOOSE i \in EligiblePositions :
        /\ \A j \in EligiblePositions :
              calculate_product_quality_score(products[j])
                  <= calculate_product_quality_score(products[i])
        /\ \A j \in EligiblePositions :
              j < i => calculate_product_quality_score(products[j])
                           < calculate_product_quality_score(products[i])

\* C4: select_best_product returns the earliest candidate of maximal score
\* among those with an eco-score substructure and a score above 0, and None
\* exactly when there is no such candidate; a candidate whose raw score is 0 or
\* below is never returned.
C4_StableMax ==
    Done("select_best_product") =>
        IF EligiblePositions = {}
        THEN result = None
        ELSE /\ result = products[StableMaxPosition]
             /\ RawQualityScore(result) > 0

\* two different candidates of the same maximal score: the earlier one is returned
C4_Witness ==
    /\ Done("select_best_product")
    /\ \E i, j \in EligiblePositions :
          /\ i < j
          /\ products[i] # products[j]
          /\ i = StableMaxPosition
          /\ calculate_product_quality_score(products[j])
                = calculate_product_quality_score(products[i])
          /\ result = products[i]

\* the sum of the terms of the quality score as the specification states
\* them, in tenths
ClaimedRawScore(p) ==
    LET eco == IF HasKey(p, "ecoscore_data") THEN p.dict["ecoscore_data"] ELSE EmptyDict
        ag  == GetD(eco, "agribalyse", EmptyDict)
        pk  == GetD(GetD(GetD(eco, "adjustments", EmptyDict), "packaging", EmptyDict),
                    "packagings", List(<<>>))
        ch  == GetD(p, "categories_hierarchy", List(<<>>))
    IN    (IF IsNum(Get(eco, "score")) THEN eco.dict["score"].num * 6 ELSE 0)
        + (IF NameResolvable(p) THEN 100 ELSE 0)
        + Min(20 * Len(ch.list), 100)
        + (IF IsDict(ag) /\ HasKey(ag, "co2_total") /\ ~IsNone(ag.dict["co2_total"])
           THEN 50 ELSE 0)
        + (IF Len(pk.list) >= 1 THEN 50 ELSE 0)
        + (IF ~NonEmptyField(p, "code") /\ ~NonEmptyField(p, "_id") THEN -200 ELSE 0)

\* C5, as claimed: calculate_product_quality_score is max(0, S), S the sum of
\* ecoscore * 0.6, 10.0 for a non-empty name (product_name, otherwise
\* product_name_en), min(2.0 * len(categories_hierarchy), 10.0), 5.0 for a
\* non-null co2_total, 5.0 for a packaging entry and -20.0 when neither code
\* nor _id is present.
C5_AsClaimed ==
    Done("calculate_product_quality_score") =>
        result = Num(Max(0, ClaimedRawScore(product)))

\* the same sum with the name term the code computes: product_name alone
C5_ProductNameOnly ==
    Done("calculate_product_quality_score") =>
        result = Num(Max(0, ClaimedRawScore(product)
                            - (IF NameResolvable(product)
                                  /\ ~NonEmptyField(product, "product_name")
                               THEN 100 ELSE 0)))

-----------------------------------------------------------------------------
(* Properties of aggregate_and_rank_products *)

Range(seq) == {seq[i] : i \in 1..Len(seq)}

RECURSIVE Concat(_)
Concat(seqs) ==
    IF seqs = <<>> THEN <<>>
    ELSE Head(seqs) \o Concat(Tail(seqs))

ArrivalOrders(n) ==
    {f \in [1..n -> 1..n] : \A i, j \in 1..n : f[i] = f[j] => i = j}

Aggregated == Done("aggregate_and_rank_products") /\ ~raised

\* the ranked result when the fetched lists arrive in the order f
RankedInOrder(f) ==
    RankedProducts(Concat([i \in 1..Len(fetched) |-> fetched[f[i]]]), top_n)

ScoresOf(seq) == [i \in 1..Len(seq) |-> ScoreOf(seq[i])]

\* no two different merged candidates have the same score
NoScoreTies ==
    \A a, b \in Range(all_products) : a # b => ScoreOf(a) # ScoreOf(b)

\* C6, as claimed: the ranked result is the same, entry for entry, for every
\* permutation of the categories' candidate lists.
C6_AsClaimed ==
    Aggregated =>
        \A f \in ArrivalOrders(Len(fetched)) : RankedInOrder(f) = result.list

\* C6, amended: for every permutation of the categories' candidate lists the
\* ranked result has the same sequence of scores, and it is the same entry for
\* entry whenever no two different merged candidates have equal scores.
C6_OrderIndependentScores ==
    Aggregated =>
        \A f \in ArrivalOrders(Len(fetched)) :
            /\ ScoresOf(RankedInOrder(f)) = ScoresOf(result.list)
            /\ NoScoreTies => RankedInOrder(f) = result.list

\* two non-empty lists that share a name, without ties, and a non-empty result
C6_Witness ==
    /\ Aggregated
    /\ Len(fetched) >= 2
    /\ NoScoreTies
    /\ \E i, j \in 1..Len(fetched) :
          /\ i < j
          /\ fetched[i] # fetched[j]
          /\ \E a \in Range(fetched[i]), b \in Range(fetched[j]) :
                NameOf(a) = NameOf(b) /\ ScoreOf(a) # ScoreOf(b)
    /\ Len(result.list) >= 2

NamesOf(seq) == {NameOf(seq[i]) : i \in 1..Len(seq)}

\* C7: after the merge the deduplicated set holds exactly one entry for each
\* distinct candidate name, and the score of that entry is the maximum score
\* among the merged candidates of that name.
C7_DedupKeepsMax ==
    Aggregated =>
        /\ \A i, j \in 1..Len(unique_products) :
              NameOf(unique_products[i]) = NameOf(unique_products[j]) => i = j
        /\ NamesOf(unique_products) = NamesOf(all_products)
        /\ \A i \in 1..Len(unique_products) :
              /\ unique_products[i] \in Range(all_products)
              /\ \A a \in Range(all_products) :
                    NameOf(a) = NameOf(unique_products[i])
                        => ScoreOf(a) <= ScoreOf(unique_products[i])

\* a name merged first with a lower score and then with a higher one
C7_Witness ==
    /\ Aggregated
    /\ \E i, j \in 1..Len(all_products) :
          /\ i < j
          /\ NameOf(all_products[i]) = NameOf(all_products[j])
          /\ ScoreOf(all_products[i]) < ScoreOf(all_products[j])
          /\ all_products[j] \in Range(unique_products)
          /\ \A k \in 1..Len(all_products) :
                NameOf(all_products[k]) = NameOf(all_products[j])
                    => ScoreOf(all_products[k]) <= ScoreOf(all_products[j])

\* C8: the result holds min(top_n, number of distinct names) entries, sorted
\* by score in non-increasing order, no omitted deduplicated candidate scores
\* strictly above a returned one, and with no category or no candidate the
\* result is the empty sequence and no error is raised.
C8_TopNByScore ==
    Done("aggregate_and_rank_products") =>
        /\ ~raised
        /\ IsList(result)
        /\ Len(result.list) = Min(top_n, Cardinality(NamesOf(all_products)))
        /\ \A i \in 1..(Len(result.list) - 1) :
              ScoreOf(result.list[i]) >= ScoreOf(result.list[i + 1])
        /\ Range(result.list) \subseteq Range(unique_products)
        /\ \A u \in Range(unique_products) \ Range(result.list) :
              \A r \in Range(result.list) : ScoreOf(u) <= ScoreOf(r)
        /\ (categories = <<>> \/ all_products = <<>>) => result = List(<<>>)

\* more names than top_n, and two equal scores at the head of the result
C8_Witness ==
    /\ Aggregated
    /\ top_n >= 3
    /\ Len(unique_products) > top_n
    /\ Len(result.list) = top_n
    /\ ScoreOf(result.list[1]) = ScoreOf(result.list[2])
    /\ ScoreOf(result.list[2]) > ScoreOf(result.list[3])

\* what the category at position i contributes: nothing when its fetch failed
ContributionOf(i) ==
    IF i \in fetch_failed THEN <<>>
    ELSE FetchLoop(<<>>, UpstreamProducts(FinalCategory(categories[i])))

\* C9: whichever fetches fail, every category is fetched exactly once, no
\* error reaches the caller, and the result is the ranked result of the
\* categories with the failing ones contributing no candidate.
C9_FailedFetchIsEmpty ==
    Done("aggregate_and_rank_products") =>
        /\ ~raised
        /\ \A i \in 1..Len(categories) : fetch_count[i] = 1
        /\ result = List(RankedProducts(
                         Concat([i \in 1..Len(categories) |-> ContributionOf(i)]), top_n))

\* a failed fetch of a category that has products, beside one that succeeded
C9_Witness ==
    /\ Aggregated
    /\ \E i \in fetch_failed : UpstreamProducts(FinalCategory(categories[i])) # <<>>
    /\ \E j \in 1..Len(categories) : j \notin fetch_failed /\ fetched[j] # <<>>
    /\ Len(result.list) >= 1

-----------------------------------------------------------------------------
(* Properties of fetch_products_by_category *)

\* the upstream candidate has a non-empty name
Named(p) ==
    \/ NonEmptyField(p, "product_name")
    \/ NonEmptyField(p, "product_name_en")
    \/ NonEmptyField(p, "generic_name")
    \/ NonEmptyField(p, "generic_name_en")

\* the upstream score and grade: the top-level field, else the nested one
ClaimedUpstream(p, top, nested) ==
    IF HasKey(p, top) /\ ~IsNone(p.dict[top]) THEN p.dict[top]
    ELSE Get(GetD(p, "ecoscore_data", EmptyDict), nested)

ClaimedGradeDefault(g) ==
    IF IsStr(g) /\ g.str # <<>> THEN GradeScore(StrLower(g.str)) ELSE 50

ClaimedScore(p) ==
    LET sc == ClaimedUpstream(p, "ecoscore_score", "score")
        g  == ClaimedUpstream(p, "ecoscore_grade", "grade")
    IN  IF IsNum(sc) THEN sc.num
        ELSE IF IsStr(sc) /\ ParseFloat(sc.str).ok THEN ParseFloat(sc.str).val
        ELSE ClaimedGradeDefault(g)

ClaimedGrade(p) ==
    LET g == ClaimedUpstream(p, "ecoscore_grade", "grade")
    IN  IF IsStr(g) /\ g.str # <<>> THEN g ELSE Str(<<"c">>)

\* C10, as claimed: every named upstream candidate yields a candidate whose
\* score is the upstream score whenever it is numeric and parseable, 0
\* included, and the grade-derived default (80, 65, 50, 35, 20 for a to e, 50
\* without a grade) otherwise, and whose grade is the upstream grade, or c;
\* no candidate is dropped because of another one's score.
C10_AsClaimed ==
    (Done("fetch_products_by_category") /\ fetch_failed = {}) =>
        LET named == SelectSeq(products, Named)
        IN  /\ Len(result.list) = Len(named)
            /\ \A i \in 1..Len(named) :
                  /\ result.list[i].dict["ecoscore_score"] = Num(ClaimedScore(named[i]))
                  /\ result.list[i].dict["ecoscore_grade"] = ClaimedGrade(named[i])

\* the same with a numeric 0 treated as the code treats it: as no score
C10_ZeroIsNoScore ==
    (Done("fetch_products_by_category") /\ fetch_failed = {}) =>
        LET named == SelectSeq(products, Named)
        IN  /\ Len(result.list) = Len(named)
            /\ \A i \in 1..Len(named) :
                  /\ result.list[i].dict["ecoscore_score"] =
                        IF Get(named[i], "ecoscore_score") = Num(0)
                        THEN Num(ClaimedGradeDefault(
                                 ClaimedUpstream(named[i], "ecoscore_grade", "grade")))
                        ELSE Num(ClaimedScore(named[i]))
                  /\ result.list[i].dict["ecoscore_grade"] = ClaimedGrade(named[i])

-----------------------------------------------------------------------------
(* transform_material_scores applied to an eco-score substructure *)

\* the entries of a packaging-adjustment list
PackagingEntries ==
    {MkDict([material |-> m, shape |-> sh,
             environmental_score_material_score |-> sc[1],
             environmental_score_shape_ratio |-> sc[2]]) :
        m \in {Absent, None, EmptyStr,
               Str(<<"e","n",":","p","-","a">>), Str(<<"p","_","a">>),
               Str(<<"f","r",":","P","-","a">>), Str(<<"e","n",":","p","e","n",":","a">>)},
        sh \in {Absent, None, Str(<<"e","n",":","b">>), Str(<<"b","-","e","n",":","c">>)},
        sc \in {<<Absent, Absent>>, <<Num(8), Num(2)>>}}

\* the eco-score substructures transform_material_scores is applied to
MaterialInputs ==
    {EmptyDict, Dict([adjustments |-> EmptyDict]),
     Dict([adjustments |-> Dict([packaging |-> EmptyDict])])}
    \cup {Dict([adjustments |-> Dict([packaging |-> Dict([packagings |-> List(l)])])]) :
             l \in SeqsUpTo(PackagingEntries, MaxPackagings)}

TransformMaterialScores ==
    /\ pc = "start"
    /\ Return("transform_material_scores",
              transform_material_scores(product.dict["ecoscore_data"]))

InitMaterial ==
    /\ InitCommon
    /\ product \in {Dict([ecoscore_data |-> e]) : e \in MaterialInputs}
    /\ IdleSelect
    /\ IdleAggregate

NextMaterial == TransformMaterialScores

SpecMaterial == InitMaterial /\ [][NextMaterial]_vars

-----------------------------------------------------------------------------
(* Properties of transform_material_scores *)

\* the packaging-adjustment list of the input
PackagingsOf(p) ==
    GetD(GetD(GetD(p.dict["ecoscore_data"], "adjustments", EmptyDict),
              "packaging", EmptyDict), "packagings", List(<<>>)).list

\* s without its language prefix
StripPrefix(s) == IF StartsWith(s, EnPrefix) THEN SubSeq(s, 4, Len(s)) ELSE s

\* uppercase(replace(strip_prefix(material_id), "-", "_"))
ClaimedKey(material_id) == StrUpper(StrReplace(StripPrefix(material_id), Hyphen, Underscore))

\* the shape label of an entry, empty when it has none
ShapeLabel(e) == IF NonEmptyField(e, "shape") THEN e.dict["shape"] ELSE EmptyStr

\* the record the specification stores for the entry e
ClaimedMaterialRecord(e) ==
    Dict([material |-> e.dict["material"],
          packaging_id |-> e.dict["material"],
          environmental_score_material_score |->
              GetD(e, "environmental_score_material_score", Num(0)),
          environmental_score_shape_ratio |->
              GetD(e, "environmental_score_shape_ratio", Num(0)),
          shape |-> ShapeLabel(e),
          shape_id |-> Str(StripPrefix(ShapeLabel(e).str))])

\* the result is the mapping the specification describes for the list l
MaterialMappingAsClaimed(l, r) ==
    LET keyed == {i \in 1..Len(l) : NonEmptyField(l[i], "material")}
    IN  /\ IsDict(r)
        /\ DOMAIN r.dict = {ClaimedKey(l[i].dict["material"].str) : i \in keyed}
        /\ \A i \in keyed :
              (\A j \in keyed : j > i =>
                    ClaimedKey(l[j].dict["material"].str) # ClaimedKey(l[i].dict["material"].str))
              => r.dict[ClaimedKey(l[i].dict["material"].str)] = ClaimedMaterialRecord(l[i])

\* C11, as claimed: transform_material_scores returns a mapping whose keys are
\* exactly uppercase(replace(strip_prefix(material_id), "-", "_")) over the
\* entries with a non-empty material id, entries without one adding no key
\* and no error, and the record under a key carries the material id, the same
\* value as packaging id, the material-score, the shape-ratio, the raw shape
\* label and the prefix-stripped shape id of the last entry deriving the key.
C11_AsClaimed ==
    Done("transform_material_scores") => MaterialMappingAsClaimed(PackagingsOf(product), result)

\* the string holds "en:" somewhere after its first character
InnerPrefix(s) == \E i \in 2..Len(s) : StartsWith(SubSeq(s, i, Len(s)), EnPrefix)

\* the same mapping for the lists in which "en:" occurs only as a prefix
C11_PrefixOnly ==
    (Done("transform_material_scores")
        /\ \A i \in 1..Len(PackagingsOf(product)) :
              LET e == PackagingsOf(product)[i]
              IN  /\ NonEmptyField(e, "material") => ~InnerPrefix(e.dict["material"].str)
                  /\ NonEmptyField(e, "shape") => ~InnerPrefix(e.dict["shape"].str))
    => MaterialMappingAsClaimed(PackagingsOf(product), result)

-----------------------------------------------------------------------------
(* Purity of select_best_product *)

\* the record p without the key k, whether p holds it or not
Without(p, k) == Dict([x \in DOMAIN p.dict \ {k} |-> p.dict[x]])

\* no step of select_best_product changes a record of its input list
InputsUntouched == [][products' = products]_vars

\* C12, as claimed: select_best_product is pure: after the call every input
\* record has exactly the keys and values it had before, and a non-empty
\* result is equal, key for key, to the chosen input record, so that
\* _quality_score never appears in the result and no field of the chosen
\* record is lost.
C12_AsClaimed ==
    /\ InputsUntouched
    /\ [](Done("select_best_product") /\ result # None =>
            /\ result = products[StableMaxPosition]
            /\ ~HasKey(result, "_quality_score"))

\* C12, corrected: every input record keeps its keys and values, and a
\* non-empty result is the chosen input record without any _quality_score
\* key: equal to the chosen record when that record has no such field, and
\* short of exactly that field when it has one.
C12_PureUpToScoreField ==
    /\ InputsUntouched
    /\ [](Done("select_best_product") /\ result # None =>
            /\ EligiblePositions # {}
            /\ result = Without(products[StableMaxPosition], "_quality_score")
            /\ ~HasKey(products[StableMaxPosition], "_quality_score")
                  => result = products[StableMaxPosition])

\* the chosen record carries a _quality_score of its own, which the result
\* has lost, next to an eligible record that carries none
C12_Witness ==
    /\ Done("select_best_product")
    /\ result # None
    /\ HasKey(products[StableMaxPosition], "_quality_score")
    /\ ~HasKey(result, "_quality_score")
    /\ \E j \in EligiblePositions : ~HasKey(products[j], "_quality_score")

====
